---------------------------- MODULE Spec2Model ----------------------------
(***************************************************************************)
(* Model of src/src/geometry.rs: the icosphere subdivider, the plane       *)
(* clipper, the cap filler, the vertex pruner, and create_d6, which runs   *)
(* them in turn.                                                           *)
(*                                                                         *)
(* Numbers.  An f32 is modelled as an exact rational <<n, d>> in lowest    *)
(* terms with d > 0, so that equality of values is equality of numbers.    *)
(* Sums, products, quotients and comparisons are exact.  A square root     *)
(* (and what is computed from one: the unit projection, sin and cos of an  *)
(* angle) is irrational, and is rounded down to a multiple of 1/FloatGrid. *)
(* Vertex indices are 0-based as in the source; TLA+ sequences are         *)
(* 1-based, so the vertex of index k is vertices[k + 1].                   *)
(***************************************************************************)
EXTENDS Integers, Sequences, FiniteSets, TLC

VARIABLES
    stage,          \* the function being run
    pc,             \* the position in it
    mesh,           \* the function's mesh argument: [vertices, indices]
    result,         \* the returned mesh, NoMesh until the function returns
    vertices,       \* local: Vec<Vertex>
    indices,        \* local: Vec<usize>
    new_indices,    \* local: Vec<usize>
    index_cache,    \* local: HashMap<(usize, usize), usize>
    i,              \* local: offset of the triangle the loop is at
    iterations,     \* create_icosphere: argument
    round,          \* create_icosphere: rounds of the outer loop completed
    plane,          \* intersect_mesh_with_plane: [point, normal]
    uvs,            \* remove_if, fill_circle: the &mut Vec<[f32; 2]>
    rm,             \* remove_if: [predicate, removed, index_offsets, new_vertices]
    fc,             \* fill_circle: [center, reference, clockwise_normal, start_index, ...]
    d6              \* create_d6: [depth, threshold, size, face, circle_start_index, circle_count]

vars == <<stage, pc, mesh, result, vertices, indices, new_indices, index_cache,
          i, iterations, round, plane, uvs, rm, fc, d6>>

-----------------------------------------------------------------------------
(* Bounds of the model *)

\* create_icosphere is run for iterations 0..MaxIterations
MaxIterations == 2

\* the grid irrational results are rounded to: multiples of 1/FloatGrid
FloatGrid == 16

-----------------------------------------------------------------------------
(* Exact rational arithmetic *)

RECURSIVE GCD(_, _)
GCD(a, b) == IF b = 0 THEN a ELSE GCD(b, a % b)

AbsInt(a) == IF a < 0 THEN -a ELSE a

\* the rational n/d in lowest terms, d > 0
Rat(n, d) ==
    LET g == GCD(AbsInt(n), AbsInt(d))
        s == IF d < 0 THEN -1 ELSE 1
    IN  <<(s * n) \div g, (s * d) \div g>>

R(n) == <<n, 1>>
RNeg(a) == <<-a[1], a[2]>>
RAbs(a) == <<AbsInt(a[1]), a[2]>>

\* the operations cancel common factors before they multiply, which keeps
\* the intermediate integers small
RAdd(a, b) ==
    LET g == GCD(a[2], b[2])
    IN  Rat(a[1] * (b[2] \div g) + b[1] * (a[2] \div g), (a[2] \div g) * b[2])
RSub(a, b) == RAdd(a, RNeg(b))
RMul(a, b) ==
    LET g1 == GCD(AbsInt(a[1]), b[2])
        g2 == GCD(AbsInt(b[1]), a[2])
    IN  <<(a[1] \div g1) * (b[1] \div g2), (a[2] \div g2) * (b[2] \div g1)>>
RInv(b) == IF b[1] < 0 THEN <<-b[2], -b[1]>> ELSE <<b[2], b[1]>>
RDiv(a, b) == RMul(a, RInv(b))
RLt(a, b) ==
    LET g == GCD(a[2], b[2])
    IN  a[1] * (b[2] \div g) < b[1] * (a[2] \div g)
RLe(a, b) == ~RLt(b, a)

RECURSIVE ISqrtFrom(_, _)
ISqrtFrom(n, k) == IF (k + 1) * (k + 1) > n THEN k ELSE ISqrtFrom(n, k + 1)

\* the largest k with k * k <= n
ISqrt(n) == ISqrtFrom(n, 0)

\* floor(q * FloatGrid * FloatGrid), without leaving the 32-bit range
FloorGrid2(q) ==
    LET m1 == (q[1] * FloatGrid) \div q[2]
        r1 == q[1] * FloatGrid - m1 * q[2]
    IN  m1 * FloatGrid + (r1 * FloatGrid) \div q[2]

\* f32::sqrt, rounded down to the grid
RSqrt(q) == Rat(ISqrt(FloorGrid2(q)), FloatGrid)

\* a quotient rounded towards zero to the grid
RDivGrid(a, b) ==
    LET q == RDiv(a, b)
        m == (AbsInt(q[1]) * FloatGrid) \div q[2]
    IN  Rat(IF q[1] < 0 THEN -m ELSE m, FloatGrid)

-----------------------------------------------------------------------------
(* Vec3 / Vertex: a triple of numbers *)

V3(x, y, z) == <<R(x), R(y), R(z)>>
VAdd(a, b) == <<RAdd(a[1], b[1]), RAdd(a[2], b[2]), RAdd(a[3], b[3])>>
VSub(a, b) == <<RSub(a[1], b[1]), RSub(a[2], b[2]), RSub(a[3], b[3])>>
VScale(a, f) == <<RMul(a[1], f), RMul(a[2], f), RMul(a[3], f)>>
Dot(a, b) == RAdd(RAdd(RMul(a[1], b[1]), RMul(a[2], b[2])), RMul(a[3], b[3]))
LengthSquared(a) == Dot(a, a)

NoMesh == [vertices |-> <<>>, indices |-> <<-1>>]

construct_mesh(vs, is) == [vertices |-> vs, indices |-> is]

EmptyCache == [k \in {} |-> 0]

\* a key that keeps the order of the pair
KeyAsGiven(p1, p2) == <<p1, p2>>

\* the normalised key (min, max) of both index caches
Key(p1, p2) == <<IF p1 < p2 THEN p1 ELSE p2, IF p1 < p2 THEN p2 ELSE p1>>

-----------------------------------------------------------------------------
(* create_icosphere *)

\* the ceiling of the assertion on iterations
MaxAllowedIterations == 8

RTwo == R(2)

\* phi = (1 + sqrt 5) / 2
Phi == RDiv(RAdd(R(1), RSqrt(R(5))), RTwo)

\* the 12 vertices lu, ld, ru, rd, uf, ub, df, db, fl, fr, bl, br
IcosahedronVertices ==
    LET p == Phi  m == RNeg(Phi)  o == R(1)  n == R(-1)  z == R(0)
    IN  << <<m, o, z>>, <<m, n, z>>, <<p, o, z>>, <<p, n, z>>,
           <<z, p, o>>, <<z, p, n>>, <<z, m, o>>, <<z, m, n>>,
           <<n, z, p>>, <<o, z, p>>, <<n, z, m>>, <<o, z, m>> >>

\* the 20 triangles, flattened
IcosahedronIndices ==
    << 5, 4, 2,   5, 2, 11,  5, 11, 10,  5, 10, 0,   5, 0, 4,
       8, 4, 0,   8, 9, 4,   9, 2, 4,    9, 3, 2,    3, 11, 2,
       3, 7, 11,  7, 10, 11, 7, 1, 10,   1, 0, 10,   1, 8, 0,
       6, 7, 3,   6, 3, 9,   6, 9, 8,    6, 8, 1,    6, 1, 7 >>

generate_regular_icosahedron ==
    construct_mesh(IcosahedronVertices, IcosahedronIndices)

project_to_unit_circle(vertex) ==
    LET length == RSqrt(LengthSquared(vertex))
    IN  <<RDivGrid(vertex[1], length), RDivGrid(vertex[2], length),
          RDivGrid(vertex[3], length)>>

\* create_midpoint that appends the midpoint and forgets to cache it
create_midpoint_uncached(p1, p2, vs, cache) ==
    IF Key(p1, p2) \in DOMAIN cache
    THEN [index |-> cache[Key(p1, p2)], vertices |-> vs, index_cache |-> cache]
    ELSE [index |-> Len(vs),
          vertices |-> Append(vs, vs[p1 + 1]),
          index_cache |-> cache]

\* create_midpoint((p1, p2), vertices, index_cache): the index returned and
\* the two collections as the call leaves them
create_midpoint(p1, p2, vs, cache) ==
    LET key == Key(p1, p2) IN
    IF key \in DOMAIN cache
    THEN [index |-> cache[key], vertices |-> vs, index_cache |-> cache]
    ELSE LET a == vs[p1 + 1]
             b == vs[p2 + 1]
             midpoint == <<RDiv(RAdd(a[1], b[1]), RTwo),
                           RDiv(RAdd(a[2], b[2]), RTwo),
                           RDiv(RAdd(a[3], b[3]), RTwo)>>
             index == Len(vs)
         IN  [index |-> index,
              vertices |-> Append(vs, project_to_unit_circle(midpoint)),
              index_cache |-> (key :> index) @@ cache]

NoPlane == [point |-> <<>>, normal |-> <<>>]
NoRm == [predicate |-> {}, removed |-> {}, index_offsets |-> <<>>,
         new_vertices |-> <<>>]
NoFc == [center |-> <<>>, reference |-> <<>>, clockwise_normal |-> <<>>,
         circle_start_index |-> 0, start_index |-> 0, counter_len |-> 0,
         sorted_indices |-> <<>>]

\* create_d6 is not running
NoD6 == [depth |-> 0, threshold |-> <<>>, size |-> <<>>, face |-> 0,
         circle_start_index |-> 0, circle_count |-> 0]

otherIco == <<mesh, plane, uvs, rm, fc, d6>>

\* iterations: u8
MaxU8 == 255

\* the assertion with the last allowed value left out
IterationsBelowMax(n) == n < MaxAllowedIterations

\* line 9: assert!(iterations <= 8)
IterationsAllowed(n) == n <= MaxAllowedIterations

InitIco ==
    /\ stage = "create_icosphere"
    /\ pc = "start"
    /\ d6 = NoD6
    /\ iterations \in 0 .. MaxU8
    /\ round = 0
    /\ mesh = NoMesh
    /\ result = NoMesh
    /\ vertices = <<>>
    /\ indices = <<>>
    /\ new_indices = <<>>
    /\ index_cache = EmptyCache
    /\ i = 0
    /\ plane = NoPlane
    /\ uvs = <<>>
    /\ rm = NoRm
    /\ fc = NoFc

\* lines 9-16: the assertion, then the icosahedron projected to the sphere
IcoStart ==
    /\ stage = "create_icosphere" /\ pc = "start"
    /\ IF ~IterationsAllowed(iterations)
       THEN /\ pc' = "panicked"
            /\ UNCHANGED <<vertices, indices>>
       ELSE LET icosahedron == generate_regular_icosahedron IN
            /\ vertices' = [k \in 1 .. Len(icosahedron.vertices) |->
                               project_to_unit_circle(icosahedron.vertices[k])]
            /\ indices' = icosahedron.indices
            /\ pc' = "outer"
    /\ UNCHANGED <<stage, result, new_indices, index_cache, i, iterations,
                   round>>
    /\ UNCHANGED otherIco

\* lines 18-20: one more round starts with an empty list and an empty cache;
\* the rounds of a call that asks for more than MaxIterations are not run
IcoBeginRound ==
    /\ stage = "create_icosphere" /\ pc = "outer"
    /\ round < iterations
    /\ iterations <= MaxIterations
    /\ new_indices' = <<>>
    /\ index_cache' = EmptyCache
    /\ i' = 0
    /\ pc' = "inner"
    /\ UNCHANGED <<stage, result, vertices, indices, iterations, round>>
    /\ UNCHANGED otherIco

\* lines 22-33: one triangle of the round
IcoTriangle ==
    /\ stage = "create_icosphere" /\ pc = "inner"
    /\ i < Len(indices)
    /\ LET p1 == indices[i + 1]
           p2 == indices[i + 2]
           p3 == indices[i + 3]
           c1 == create_midpoint(p1, p2, vertices, index_cache)
           c2 == create_midpoint(p2, p3, c1.vertices, c1.index_cache)
           c3 == create_midpoint(p3, p1, c2.vertices, c2.index_cache)
           m1 == c1.index
           m2 == c2.index
           m3 == c3.index
       IN  /\ vertices' = c3.vertices
           /\ index_cache' = c3.index_cache
           /\ new_indices' = new_indices \o <<p1, m1, m3>> \o <<p2, m2, m1>>
                                \o <<p3, m3, m2>> \o <<m1, m2, m3>>
    /\ i' = i + 3
    /\ UNCHANGED <<stage, pc, result, indices, iterations, round>>
    /\ UNCHANGED otherIco

\* line 35: the round's list replaces the working list
IcoEndRound ==
    /\ stage = "create_icosphere" /\ pc = "inner"
    /\ i >= Len(indices)
    /\ indices' = new_indices
    /\ round' = round + 1
    /\ pc' = "outer"
    /\ UNCHANGED <<stage, result, vertices, new_indices, index_cache, i,
                   iterations>>
    /\ UNCHANGED otherIco

\* line 37
IcoReturn ==
    /\ stage = "create_icosphere" /\ pc = "outer"
    /\ round >= iterations
    /\ result' = construct_mesh(vertices, indices)
    /\ pc' = "done"
    /\ UNCHANGED <<stage, vertices, indices, new_indices, index_cache, i,
                   iterations, round>>
    /\ UNCHANGED otherIco

NextIco == IcoStart \/ IcoBeginRound \/ IcoTriangle \/ IcoEndRound \/ IcoReturn

SpecIco == InitIco /\ [][NextIco]_vars

-----------------------------------------------------------------------------
(* Claims about create_icosphere *)

RECURSIVE Pow4(_)
Pow4(n) == IF n = 0 THEN 1 ELSE 4 * Pow4(n - 1)

\* C1: create_icosphere(n) returns 20 * 4^n triangles (3 * 20 * 4^n indices)
\* and 10 * 4^n + 2 vertices
C1_IcosphereCounts ==
    (stage = "create_icosphere" /\ pc = "done") =>
        /\ Len(result.indices) = 3 * 20 * Pow4(iterations)
        /\ Len(result.vertices) = 10 * Pow4(iterations) + 2

C1_Witness ==
    /\ stage = "create_icosphere" /\ pc = "done"
    /\ iterations >= 2
    /\ Len(result.vertices) = 162

\* the unordered pairs that are edges of the first n indices' triangles
EdgeKeys(is, n) ==
    UNION { { Key(is[3 * t + 1], is[3 * t + 2]),
              Key(is[3 * t + 2], is[3 * t + 3]),
              Key(is[3 * t + 3], is[3 * t + 1]) } : t \in 0 .. (n \div 3) - 1 }

\* C2: within a round every unordered pair that is an edge of a triangle
\* processed so far has exactly one midpoint index, whichever way the edge
\* was traversed; only the first call for a pair appended a vertex; the
\* cache was empty when the round started
C2_MidpointDedup ==
    (stage = "create_icosphere" /\ pc = "inner") =>
        LET keys == DOMAIN index_cache
            n == Cardinality(keys)
        IN  /\ (i = 0 => index_cache = EmptyCache)
            /\ keys = EdgeKeys(indices, i)
            /\ \A k1, k2 \in keys : index_cache[k1] = index_cache[k2] => k1 = k2
            /\ {index_cache[k] : k \in keys}
                   = (Len(vertices) - n) .. (Len(vertices) - 1)
            /\ \A t \in 0 .. (i \div 3) - 1 :
                  LET p1 == indices[3 * t + 1]
                      p2 == indices[3 * t + 2]
                      p3 == indices[3 * t + 3]
                  IN  /\ new_indices[12 * t + 2] = index_cache[Key(p1, p2)]
                      /\ new_indices[12 * t + 2] = index_cache[Key(p2, p1)]
                      /\ new_indices[12 * t + 5] = index_cache[Key(p2, p3)]
                      /\ new_indices[12 * t + 3] = index_cache[Key(p3, p1)]

\* a round in which a midpoint was found in the cache: fewer keys than calls
C2_Witness ==
    /\ stage = "create_icosphere" /\ pc = "inner"
    /\ round = 1
    /\ i = Len(indices)
    /\ Cardinality(DOMAIN index_cache) < i

\* C12: create_icosphere fails exactly when iterations > 8, and it fails
\* at the assertion, with no vertex, no index and no mesh produced; no
\* iterations of 0 ..= 8 fails
C12_AssertIterations ==
    stage = "create_icosphere" =>
        /\ pc = "panicked" <=> (pc # "start" /\ iterations > 8)
        /\ pc = "panicked" =>
              /\ vertices = <<>>
              /\ indices = <<>>
              /\ new_indices = <<>>
              /\ result = NoMesh

\* the call with the first value past the limit has failed
C12_Witness ==
    /\ stage = "create_icosphere" /\ pc = "panicked"
    /\ iterations = 9

\* the call with the last allowed value is past the assertion
C12_EightPasses ==
    /\ stage = "create_icosphere" /\ pc = "outer"
    /\ iterations = 8
    /\ Len(vertices) = 12

-----------------------------------------------------------------------------
(* intersect_mesh_with_plane *)

\* Option<T>: None, or Some(v)
None == <<>>
Some(v) == <<v>>
Unwrap(o) == o[1]

\* f32::EPSILON is 2^-23: 1 / EpsilonDen
EpsilonDen == 8388608

\* dot.abs() <= f32::EPSILON
AbsLeEpsilon(dot) == AbsInt(dot[1]) <= dot[2] \div EpsilonDen

\* no segment test: the edge taken for an infinite line
OutsideSegmentNever(factor) == RLt(factor, factor)

\* factor < 0.0 || factor > 1.0
OutsideSegment(factor) == RLt(factor, R(0)) \/ RLt(R(1), factor)

\* the intersection taken at the end of the line instead of at factor
intersect_line_with_plane_unscaled(l1, l2, plane_point, plane_normal) ==
    LET line == VSub(l2, l1)
        dot == Dot(plane_normal, line)
    IN  IF AbsLeEpsilon(dot) THEN None
        ELSE LET factor == RDiv(Dot(plane_normal, VSub(l1, plane_point)),
                                RNeg(dot))
             IN  IF OutsideSegment(factor) THEN None
                 ELSE Some(VAdd(l1, line))

intersect_line_with_plane(l1, l2, plane_point, plane_normal) ==
    LET line == VSub(l2, l1)
        dot == Dot(plane_normal, line)
    IN  IF AbsLeEpsilon(dot) THEN None
        ELSE LET factor == RDiv(Dot(plane_normal, VSub(l1, plane_point)),
                                RNeg(dot))
             IN  IF OutsideSegment(factor) THEN None
                 ELSE Some(VAdd(l1, VScale(line, factor)))

\* the three edges (k, k + 1 mod 3) of the triangle, in order
intersect_triangle_with_plane(vs, tri, plane_point, plane_normal) ==
    [k \in 1 .. 3 |->
        intersect_line_with_plane(vs[tri[k] + 1], vs[tri[(k % 3) + 1] + 1],
                                  plane_point, plane_normal)]

\* the test that lets every triangle through to the retriangulation
needs_triangulation_always(collisions) ==
    Cardinality({k \in 1 .. Len(collisions) : collisions[k] # None}) >= 0

needs_triangulation(collisions) ==
    Cardinality({k \in 1 .. Len(collisions) : collisions[k] # None}) > 1

\* the pass that never looks the edge up in the cache
ClipSlotNoLookup(st, k, tri, intersections) ==
    IF intersections[k] # None
    THEN [vertices |-> Append(st.vertices, Unwrap(intersections[k])),
          index_cache |-> (Key(tri[k], tri[(k % 3) + 1]) :> Len(st.vertices))
                              @@ st.index_cache,
          triangle |-> Append(st.triangle, <<tri[k], Some(Len(st.vertices))>>)]
    ELSE [st EXCEPT !.triangle = Append(@, <<tri[k], None>>)]

\* lines 186-203, one pass of the loop for edge k (1..3): st is
\* [vertices, index_cache, triangle]
ClipSlot(st, k, tri, intersections) ==
    LET i1 == tri[k]
        i2 == tri[(k % 3) + 1]
        key == Key(i1, i2)
    IN  IF key \in DOMAIN st.index_cache
        THEN [st EXCEPT !.triangle = Append(@, <<i1, Some(st.index_cache[key])>>)]
        ELSE IF intersections[k] # None
             THEN LET new_index == Len(st.vertices)
                  IN  [vertices |-> Append(st.vertices, Unwrap(intersections[k])),
                       index_cache |-> (key :> new_index) @@ st.index_cache,
                       triangle |-> Append(st.triangle, <<i1, Some(new_index)>>)]
             ELSE [st EXCEPT !.triangle = Append(@, <<i1, None>>)]

\* the slot the loop of lines 211-214 stops at, from slot x (0..2); Diverges
\* when it has seen all three slots empty, which it then does forever
Diverges == 3

RECURSIVE WalkBack(_, _, _)
WalkBack(triangle, x, seen) ==
    IF triangle[x + 1][2] # None THEN x
    ELSE IF seen = 2 THEN Diverges
    ELSE WalkBack(triangle, (x + 2) % 3, seen + 1)

\* the walk started at the slot after the corner's own
WalkStartNext(t) == (t + 1) % 3

\* line 211
WalkStartBack(t) == (t + 2) % 3

\* lines 205-216 for corner t (0..2)
ClipEmit(triangle, tri, t) ==
    LET i1 == tri[t + 1]
        i2 == IF triangle[t + 1][2] # None
              THEN Unwrap(triangle[t + 1][2])
              ELSE triangle[((t + 1) % 3) + 1][1]
        x  == WalkBack(triangle, WalkStartBack(t), 0)
    IN  IF x = Diverges THEN <<>> ELSE <<i1, i2, Unwrap(triangle[x + 1][2])>>

\* lines 177-217 for the triangle at offset i: [vertices, index_cache,
\* new_indices, diverged]
ClipTriangleStep(vs, cache, out, tri, pl) ==
    LET intersections ==
            intersect_triangle_with_plane(vs, tri, pl.point, pl.normal)
    IN  IF ~needs_triangulation(intersections)
        THEN [vertices |-> vs, index_cache |-> cache,
              new_indices |-> out \o tri, diverged |-> FALSE]
        ELSE LET s0 == [vertices |-> vs, index_cache |-> cache,
                        triangle |-> <<>>]
                 s1 == ClipSlot(s0, 1, tri, intersections)
                 s2 == ClipSlot(s1, 2, tri, intersections)
                 s3 == ClipSlot(s2, 3, tri, intersections)
                 e0 == ClipEmit(s3.triangle, tri, 0)
                 e1 == ClipEmit(s3.triangle, tri, 1)
                 e2 == ClipEmit(s3.triangle, tri, 2)
             IN  [vertices |-> s3.vertices, index_cache |-> s3.index_cache,
                  new_indices |-> out \o e0 \o e1 \o e2,
                  diverged |-> (e0 = <<>> \/ e1 = <<>> \/ e2 = <<>>)]

\* a mesh without an index buffer
NoIndices == <<-1>>

\* Bound of the inputs: coordinates along x are -MaxCoord .. MaxCoord
MaxCoord == 1

Xs == {R(k) : k \in -MaxCoord .. MaxCoord}

\* the corners of a unit square in y and z, each at an x of its own
SquareVertices(n) ==
    LET yz == << <<0, 0>>, <<1, 0>>, <<1, 1>>, <<0, 1>> >>
    IN  { [k \in 1 .. n |-> <<xs[k], R(yz[k][1]), R(yz[k][2])>>] :
             xs \in [1 .. n -> Xs] }

\* one triangle; two triangles that share the edge {0, 2}, in either order
\* and with the shared edge traversed in opposite or in the same direction
ClipMeshes ==
    { construct_mesh(vs, <<0, 1, 2>>) : vs \in SquareVertices(3) }
    \cup { construct_mesh(vs, is) :
             vs \in SquareVertices(4),
             is \in { <<0, 1, 2, 0, 2, 3>>, <<0, 2, 3, 0, 1, 2>>,
                      <<0, 1, 2, 2, 0, 3>> } }
    \cup { construct_mesh(vs, NoIndices) : vs \in SquareVertices(0) }

\* planes through a lattice point or between lattice points; the normals
\* are axes, as create_d6 passes them, and one oblique direction
ClipPlanes ==
    { [point |-> pt, normal |-> n] :
         pt \in { V3(0, 0, 0), <<Rat(1, 2), Rat(1, 2), Rat(1, 2)>> },
         n \in { V3(1, 0, 0), V3(-1, 0, 0), V3(0, 1, 0), V3(1, 1, 0) } }

otherClip == <<iterations, round, uvs, rm, fc, d6>>

InitClip ==
    /\ stage = "intersect_mesh_with_plane"
    /\ pc = "start"
    /\ d6 = NoD6
    /\ mesh \in ClipMeshes
    /\ plane \in ClipPlanes
    /\ result = NoMesh
    /\ vertices = <<>>
    /\ indices = <<>>
    /\ new_indices = <<>>
    /\ index_cache = EmptyCache
    /\ i = 0
    /\ iterations = 0
    /\ round = 0
    /\ uvs = <<>>
    /\ rm = NoRm
    /\ fc = NoFc

\* lines 172-174: Err when the mesh has no index buffer
ClipStart ==
    /\ stage = "intersect_mesh_with_plane" /\ pc = "start"
    /\ IF mesh.indices = NoIndices
       THEN /\ pc' = "err"
            /\ UNCHANGED <<vertices, indices>>
       ELSE /\ vertices' = mesh.vertices
            /\ indices' = mesh.indices
            /\ pc' = "loop"
    /\ index_cache' = EmptyCache
    /\ new_indices' = <<>>
    /\ i' = 0
    /\ UNCHANGED <<stage, mesh, result, plane>>
    /\ UNCHANGED otherClip

\* lines 176-218: one triangle
ClipTriangle ==
    /\ stage = "intersect_mesh_with_plane" /\ pc = "loop"
    /\ i < Len(indices)
    /\ LET tri == <<indices[i + 1], indices[i + 2], indices[i + 3]>>
           r == ClipTriangleStep(vertices, index_cache, new_indices, tri, plane)
       IN  /\ vertices' = r.vertices
           /\ index_cache' = r.index_cache
           /\ new_indices' = r.new_indices
           /\ pc' = IF r.diverged THEN "diverged" ELSE "loop"
    /\ i' = i + 3
    /\ UNCHANGED <<stage, mesh, result, indices, plane>>
    /\ UNCHANGED otherClip

\* line 219
ClipReturn ==
    /\ stage = "intersect_mesh_with_plane" /\ pc = "loop"
    /\ i >= Len(indices)
    /\ result' = construct_mesh(vertices, new_indices)
    /\ pc' = "done"
    /\ UNCHANGED <<stage, mesh, vertices, indices, new_indices, index_cache,
                   i, plane>>
    /\ UNCHANGED otherClip

NextClip == ClipStart \/ ClipTriangle \/ ClipReturn

SpecClip == InitClip /\ [][NextClip]_vars

-----------------------------------------------------------------------------
(* Claims about intersect_mesh_with_plane *)

Clipping == stage = "intersect_mesh_with_plane"

\* normal . (v - planePoint): positive on the normal's side of the plane
Height(v) == Dot(plane.normal, VSub(v, plane.point))

Sign(q) == IF q[1] > 0 THEN 1 ELSE IF q[1] < 0 THEN -1 ELSE 0

\* the triangle of the input mesh at offset o (0, 3, 6, ...)
InTriangle(o) == <<mesh.indices[o + 1], mesh.indices[o + 2], mesh.indices[o + 3]>>

\* which of the three edges of a triangle report an intersection
Reports(tri) ==
    {k \in 1 .. 3 :
        intersect_line_with_plane(mesh.vertices[tri[k] + 1],
                                  mesh.vertices[tri[(k % 3) + 1] + 1],
                                  plane.point, plane.normal) # None}

IsCut(tri) == Cardinality(Reports(tri)) > 1

\* where the output of the input triangle at offset o starts in new_indices:
\* a triangle passed through takes 3 places, a retriangulated one 9
RECURSIVE OutOffset(_)
OutOffset(o) ==
    IF o = 0 THEN 0
    ELSE OutOffset(o - 3) + (IF IsCut(InTriangle(o - 3)) THEN 9 ELSE 3)

\* C4: a mesh that lies entirely on one side of the plane is returned as it
\* was: the same vertices, the same indices in the same order
C4_OneSideUnchanged ==
    (Clipping /\ pc = "done"
       /\ \/ \A k \in 1 .. Len(mesh.vertices) : Sign(Height(mesh.vertices[k])) = 1
          \/ \A k \in 1 .. Len(mesh.vertices) : Sign(Height(mesh.vertices[k])) = -1)
    => result = mesh

C4_Witness ==
    /\ Clipping /\ pc = "done"
    /\ Len(mesh.indices) = 6
    /\ \A k \in 1 .. Len(mesh.vertices) : Sign(Height(mesh.vertices[k])) = -1
    /\ \E k \in 1 .. Len(mesh.vertices) : mesh.vertices[k][1] # mesh.vertices[1][1]

\* the signs of the heights of a triangle's corners
CornerSigns(tri) == [k \in 1 .. 3 |-> Sign(Height(mesh.vertices[tri[k] + 1]))]

\* entirely on one side, or touching the plane at one corner only with the
\* other two corners on one side
OneSideOrTouching(tri) ==
    LET sg == CornerSigns(tri)
    IN  \E side \in {-1, 1} :
           /\ \A k \in 1 .. 3 : sg[k] \in {side, 0}
           /\ Cardinality({k \in 1 .. 3 : sg[k] = 0}) <= 1

\* the step of ClipTriangle leaves the triangle at offset i as it was
PassedThrough ==
    /\ new_indices' = new_indices \o InTriangle(i)
    /\ vertices' = vertices

ClipTriangleTaken ==
    Clipping /\ pc = "loop" /\ i < Len(indices) /\ i' = i + 3

\* C5, as claimed: a triangle is retriangulated iff more than one edge
\* reports, and a triangle on one side of the plane or touching it at one
\* corner reports at most one intersection and is passed through
C5_AsClaimed ==
    [][ClipTriangleTaken =>
          /\ IsCut(InTriangle(i)) <=> ~PassedThrough
          /\ OneSideOrTouching(InTriangle(i)) =>
                /\ Cardinality(Reports(InTriangle(i))) <= 1
                /\ PassedThrough]_vars

\* the triangle reached with one corner on the plane and two on one side
C5_TouchingReached ==
    /\ Clipping /\ pc = "loop" /\ i = 3
    /\ OneSideOrTouching(InTriangle(0))
    /\ \E k \in 1 .. 3 : CornerSigns(InTriangle(0))[k] = 0

\* the cut edges of the triangles processed so far: the unordered pairs of
\* a reporting edge of a retriangulated triangle
CutEdges(n) ==
    UNION { UNION { IF Cardinality(reports) > 1
                    THEN { Key(InTriangle(3 * t)[k],
                               InTriangle(3 * t)[(k % 3) + 1]) : k \in reports }
                    ELSE {} : reports \in {Reports(InTriangle(3 * t))} } :
            t \in 0 .. (n \div 3) - 1 }

\* C6: in one pass each cut edge has exactly one new vertex: the cache holds
\* the cut edges of the retriangulated triangles, one appended vertex each,
\* and every retriangulated triangle refers to its cut edges by the cached
\* index, whichever triangle came first and whichever way it runs the edge
C6_OneVertexPerCutEdge ==
    (Clipping /\ pc \in {"loop", "done"}) =>
        \A keys \in {DOMAIN index_cache}, cut \in {CutEdges(i)} :
        /\ keys = cut
        /\ \A k1, k2 \in keys : index_cache[k1] = index_cache[k2] => k1 = k2
        /\ {index_cache[k] : k \in keys}
               = Len(mesh.vertices) .. (Len(vertices) - 1)
        /\ Len(vertices) - Len(mesh.vertices) = Cardinality(cut)
        /\ \A t \in 0 .. (i \div 3) - 1 :
              \A tri \in {InTriangle(3 * t)}, o \in {OutOffset(3 * t)} :
                 \A reports \in {Reports(tri)} :
                    Cardinality(reports) > 1 =>
                       \A k \in reports :
                          new_indices[o + 3 * (k - 1) + 2]
                              = index_cache[Key(tri[k], tri[(k % 3) + 1])]

\* two retriangulated triangles that share the cut edge {0, 2} and run it
\* in the same direction
C6_Witness ==
    /\ Clipping /\ pc = "done"
    /\ mesh.indices = <<0, 1, 2, 2, 0, 3>>
    /\ IsCut(InTriangle(0)) /\ IsCut(InTriangle(3))
    /\ <<0, 2>> \in DOMAIN index_cache
    /\ new_indices[8] = new_indices[11]

\* C7: the pass only appends: the first k vertices of the output are the
\* input's, and every later vertex is the intersection point of a cut edge
\* found in this pass, on the plane
C7_AppendsOnPlane ==
    (Clipping /\ pc = "done") =>
        LET k == Len(mesh.vertices) IN
        /\ Len(result.vertices) >= k
        /\ SubSeq(result.vertices, 1, k) = mesh.vertices
        /\ \A n \in k + 1 .. Len(result.vertices) :
              /\ Height(result.vertices[n]) = R(0)
              /\ \E key \in DOMAIN index_cache :
                    /\ index_cache[key] = n - 1
                    /\ Some(result.vertices[n]) =
                          intersect_line_with_plane(
                              mesh.vertices[key[1] + 1], mesh.vertices[key[2] + 1],
                              plane.point, plane.normal)

\* a pass that appended a vertex strictly between the ends of its edge
C7_Witness ==
    /\ Clipping /\ pc = "done"
    /\ Len(result.vertices) > Len(mesh.vertices)
    /\ \E n \in Len(mesh.vertices) + 1 .. Len(result.vertices) :
          \A k \in 1 .. Len(mesh.vertices) : result.vertices[n] # mesh.vertices[k]

\* the slots (lines 185-203) the pass builds for the triangle at offset i
CurrentSlots ==
    LET tri == <<indices[i + 1], indices[i + 2], indices[i + 3]>>
        intersections ==
            intersect_triangle_with_plane(vertices, tri, plane.point, plane.normal)
        s0 == [vertices |-> vertices, index_cache |-> index_cache,
               triangle |-> <<>>]
        s1 == ClipSlot(s0, 1, tri, intersections)
        s2 == ClipSlot(s1, 2, tri, intersections)
    IN  ClipSlot(s2, 3, tri, intersections).triangle

\* the triangle at offset i is about to be retriangulated
AboutToRetriangulate ==
    /\ Clipping /\ pc = "loop" /\ i < Len(indices)
    /\ needs_triangulation(
          intersect_triangle_with_plane(
              vertices, <<indices[i + 1], indices[i + 2], indices[i + 3]>>,
              plane.point, plane.normal))

\* the number of times the loop of lines 212-214 steps back from slot x,
\* counted up to 3
RECURSIVE WalkSteps(_, _, _)
WalkSteps(triangle, x, n) ==
    IF triangle[x + 1][2] # None \/ n = 3 THEN n
    ELSE WalkSteps(triangle, (x + 2) % 3, n + 1)

\* the triangles the pass has still to process
TrianglesLeft == (Len(indices) - i) \div 3

\* C14: in every triangle that is retriangulated at least one slot holds
\* an intersection vertex index, so for each corner the backward walk stops
\* after at most two steps at a slot that holds one and the expect does
\* not panic; the pass finishes: every step of its loop leaves one triangle
\* less to process, until it returns
C14_WalkTerminates ==
    /\ [](AboutToRetriangulate =>
            \A slots \in {CurrentSlots} :
               /\ \E k \in 1 .. 3 : slots[k][2] # None
               /\ \A t \in 0 .. 2 :
                     /\ WalkSteps(slots, WalkStartBack(t), 0) <= 2
                     /\ WalkBack(slots, WalkStartBack(t), 0) # Diverges)
    /\ []((Clipping /\ pc = "loop") => (i % 3 = 0 /\ i <= Len(indices)))
    /\ [][(Clipping /\ pc = "loop") =>
            \/ /\ pc' = "loop"
               /\ TrianglesLeft > 0
               /\ TrianglesLeft' = TrianglesLeft - 1
            \/ /\ pc' = "done"
               /\ TrianglesLeft = 0]_vars

\* a single triangle with all three edges reporting, retriangulated: the
\* plane goes through one corner and across the opposite edge
C14_Witness ==
    /\ Clipping /\ pc = "done"
    /\ Len(mesh.indices) = 3
    /\ Cardinality(Reports(InTriangle(0))) = 3
    /\ Len(result.indices) = 9

Cross(a, b) ==
    <<RSub(RMul(a[2], b[3]), RMul(a[3], b[2])),
      RSub(RMul(a[3], b[1]), RMul(a[1], b[3])),
      RSub(RMul(a[1], b[2]), RMul(a[2], b[1]))>>

\* twice the area of the triangle (a, b, c) of vs, as a vector along its
\* normal: its direction tells the winding
AreaVector(vs, a, b, c) ==
    Cross(VSub(vs[b + 1], vs[a + 1]), VSub(vs[c + 1], vs[a + 1]))

\* the area vector s is a multiple of n that is not negative
NonNegativeAlong(s, n) ==
    /\ Cross(s, n) = V3(0, 0, 0)
    /\ ~RLt(Dot(s, n), R(0))

\* the triangle the pass emitted for corner t (0..2) of a retriangulated
\* input triangle whose output starts at place out of the index list
Emitted(out, t) ==
    <<result.indices[out + 3 * t + 1], result.indices[out + 3 * t + 2],
      result.indices[out + 3 * t + 3]>>

EmittedArea(out, t) ==
    AreaVector(result.vertices, result.indices[out + 3 * t + 1],
               result.indices[out + 3 * t + 2], result.indices[out + 3 * t + 3])

\* C13: in place of every retriangulated triangle (A, B, C) the pass emits
\* 3 triangles, the t-th starting at corner t; each has the winding of
\* (A, B, C) or no area, and their areas add up to the area of (A, B, C)
C13_ThreeTrianglesCover ==
    (Clipping /\ pc = "done") =>
        /\ Len(result.indices) = OutOffset(Len(mesh.indices))
        /\ \A n \in 0 .. (Len(mesh.indices) \div 3) - 1 :
              \A tri \in {InTriangle(3 * n)} :
                 IsCut(tri) =>
                    \A out \in {OutOffset(3 * n)} :
                    \A w \in {AreaVector(mesh.vertices, tri[1], tri[2], tri[3])},
                       a0 \in {EmittedArea(out, 0)},
                       a1 \in {EmittedArea(out, 1)},
                       a2 \in {EmittedArea(out, 2)} :
                       /\ \A t \in 0 .. 2 : Emitted(out, t)[1] = tri[t + 1]
                       /\ NonNegativeAlong(a0, w)
                       /\ NonNegativeAlong(a1, w)
                       /\ NonNegativeAlong(a2, w)
                       /\ VAdd(a0, VAdd(a1, a2)) = w

\* the plane separates the second corner from the other two: the edges
\* into and out of it are cut, and the three emitted triangles have area
C13_Witness ==
    /\ Clipping /\ pc = "done"
    /\ Len(mesh.indices) = 3
    /\ Reports(InTriangle(0)) = {1, 2}
    /\ Len(result.vertices) = 5
    /\ \A t \in 0 .. 2 : EmittedArea(0, t) # V3(0, 0, 0)

\* the same with the first and with the third corner separated
C13_FirstSeparated ==
    /\ Clipping /\ pc = "done"
    /\ Len(mesh.indices) = 3
    /\ Reports(InTriangle(0)) = {1, 3}
    /\ \A t \in 0 .. 2 : EmittedArea(0, t) # V3(0, 0, 0)

C13_ThirdSeparated ==
    /\ Clipping /\ pc = "done"
    /\ Len(mesh.indices) = 3
    /\ Reports(InTriangle(0)) = {2, 3}
    /\ \A t \in 0 .. 2 : EmittedArea(0, t) # V3(0, 0, 0)

-----------------------------------------------------------------------------
(* remove_if *)

\* Bound of the inputs of remove_if: the number of vertices
MaxRemoveVertices == 3

\* the numbers of triangles of the inputs
RemoveTriangleCounts == 0 .. 2

\* the predicate is a function of the position: the set of positions it
\* holds for
predicate(v) == v \in rm.predicate

\* the number of removed vertices among the first n, which is removed.len()
\* when index_offsets gets its n-th entry: kept in place of the set
RemovedUpTo(vs, n) == Cardinality({k \in 1 .. n : predicate(vs[k])})

\* offsets that shift nothing
IndexOffsetsZero(vs) == [v \in 1 .. Len(vs) |-> 0]

\* lines 272-281: index_offsets[v] is removed.len() after vertex v
IndexOffsets(vs) == [v \in 1 .. Len(vs) |-> RemovedUpTo(vs, v)]

\* the entries of seq at the places lo .. hi where keep holds, in order
RECURSIVE FilterRange(_, _, _, _)
FilterRange(seq, keep, lo, hi) ==
    IF lo > hi THEN <<>>
    ELSE IF lo = hi THEN (IF keep[lo] THEN <<seq[lo]>> ELSE <<>>)
    ELSE FilterRange(seq, keep, lo, (lo + hi) \div 2)
            \o FilterRange(seq, keep, ((lo + hi) \div 2) + 1, hi)

\* the entries of seq at the places 1 .. n where keep holds, in order
Filter(seq, keep, n) == FilterRange(seq, keep, 1, n)

\* a triangle is kept when its first corner is not removed
TriangleKeptFirst(tri, removed) == tri[1] \notin removed

\* line 285: a triangle is kept when none of its corners is removed
TriangleKept(tri, removed) == \A k \in 1 .. 3 : tri[k] \notin removed

\* lines 284-287 for the triangles number lo .. hi - 1 of is, in order
RECURSIVE RewriteRange(_, _, _, _, _)
RewriteRange(is, lo, hi, removed, offsets) ==
    IF lo >= hi THEN <<>>
    ELSE IF hi = lo + 1
    THEN LET tri == <<is[3 * lo + 1], is[3 * lo + 2], is[3 * lo + 3]>>
         IN  IF TriangleKept(tri, removed)
             THEN [k \in 1 .. 3 |-> tri[k] - offsets[tri[k] + 1]]
             ELSE <<>>
    ELSE RewriteRange(is, lo, (lo + hi) \div 2, removed, offsets)
            \o RewriteRange(is, (lo + hi) \div 2, hi, removed, offsets)

\* lines 283-288: the triangles of is from offset o on, rewritten
RewriteIndices(is, o, removed, offsets) ==
    RewriteRange(is, o \div 3, Len(is) \div 3, removed, offsets)

\* the vertices 1 .. n at distinct positions, or in pairs at one position
RemoveVertexLists ==
    { [k \in 1 .. MaxRemoveVertices |-> V3(k, 0, 0)],
      [k \in 1 .. MaxRemoveVertices |-> V3(k \div 2, 1, 0)] }

\* every list of so many triangles over the vertices
RemoveIndexLists ==
    UNION { [1 .. 3 * t -> 0 .. MaxRemoveVertices - 1] :
               t \in RemoveTriangleCounts }

\* a UV per vertex, each its own
RemoveUvs == [k \in 1 .. MaxRemoveVertices |-> <<Rat(k, 8), Rat(1, k)>>]

otherRemove == <<new_indices, index_cache, i, iterations, round, plane, fc,
                d6>>

InitRemove ==
    /\ stage = "remove_if"
    /\ pc = "start"
    /\ d6 = NoD6
    /\ mesh \in { construct_mesh(vs, is) :
                     vs \in RemoveVertexLists, is \in RemoveIndexLists }
    /\ uvs = RemoveUvs
    /\ rm \in { [NoRm EXCEPT !.predicate = ps] :
                   ps \in SUBSET { mesh.vertices[k] : k \in 1 .. Len(mesh.vertices) } }
    /\ result = NoMesh
    /\ vertices = <<>>
    /\ indices = <<>>
    /\ new_indices = <<>>
    /\ index_cache = EmptyCache
    /\ i = 0
    /\ iterations = 0
    /\ round = 0
    /\ plane = NoPlane
    /\ fc = NoFc

\* lines 265-282: the vertices and the UVs that stay, the offsets
RemoveScan ==
    /\ stage = "remove_if" /\ pc = "start"
    /\ vertices' = mesh.vertices
    /\ indices' = mesh.indices
    /\ LET vs == mesh.vertices
           keep == [v \in 1 .. Len(vs) |-> ~predicate(vs[v])]
       IN  /\ rm' = [rm EXCEPT
                       !.removed = {v - 1 : v \in {w \in 1 .. Len(vs) : ~keep[w]}},
                       !.index_offsets = IndexOffsets(vs),
                       !.new_vertices = Filter(vs, keep, Len(vs))]
           /\ uvs' = Filter(uvs, keep, Len(vs))
    /\ pc' = "rewrite"
    /\ UNCHANGED <<stage, mesh, result>>
    /\ UNCHANGED otherRemove

\* lines 283-289
RemoveRewrite ==
    /\ stage = "remove_if" /\ pc = "rewrite"
    /\ result' = construct_mesh(rm.new_vertices,
                     RewriteIndices(indices, 0, rm.removed, rm.index_offsets))
    /\ pc' = "done"
    /\ UNCHANGED <<stage, mesh, vertices, indices, uvs, rm>>
    /\ UNCHANGED otherRemove

NextRemove == RemoveScan \/ RemoveRewrite

SpecRemove == InitRemove /\ [][NextRemove]_vars

-----------------------------------------------------------------------------
(* Claims about remove_if *)

Removing == stage = "remove_if"

\* the input vertices (0-based) the predicate holds for
Doomed == {v \in 0 .. Len(mesh.vertices) - 1 : mesh.vertices[v + 1] \in rm.predicate}

\* the offsets of the input triangles none of whose corners is doomed
SurvivingTriangles ==
    {o \in {3 * t : t \in 0 .. (Len(mesh.indices) \div 3) - 1} :
        \A k \in 1 .. 3 : mesh.indices[o + k] \notin Doomed}

\* C8: after remove_if a triangle is kept iff none of its corners satisfies
\* the predicate, every output index is below the output vertex count, no
\* output vertex satisfies the predicate, and uvs is as long as the vertices
C8_NoDanglingReferences ==
    (Removing /\ pc = "done") =>
        /\ Len(result.indices) = 3 * Cardinality(SurvivingTriangles)
        /\ \A k \in 1 .. Len(result.indices) :
              /\ result.indices[k] \in 0 .. Len(result.vertices) - 1
              /\ result.vertices[result.indices[k] + 1] \notin rm.predicate
        /\ \A k \in 1 .. Len(result.vertices) :
              result.vertices[k] \notin rm.predicate
        /\ Len(result.vertices) = Len(mesh.vertices) - Cardinality(Doomed)
        /\ Len(uvs) = Len(result.vertices)

\* a call that removed a vertex, dropped a triangle and kept another
C8_Witness ==
    /\ Removing /\ pc = "done"
    /\ Doomed # {}
    /\ Len(result.indices) = 3
    /\ Len(mesh.indices) = 6
    /\ \E k \in 1 .. 3 : result.indices[k] # mesh.indices[k]

\* the reference filter: the entries of seq whose 0-based place is not in
\* gone, in order
RECURSIVE Surviving(_, _, _)
Surviving(seq, gone, n) ==
    IF n = 0 THEN <<>>
    ELSE IF (n - 1) \in gone THEN Surviving(seq, gone, n - 1)
    ELSE Append(Surviving(seq, gone, n - 1), seq[n])

\* the surviving triangles of the input, in order, as input indices
RECURSIVE SurvivingIndices(_)
SurvivingIndices(o) ==
    IF o >= Len(mesh.indices) THEN <<>>
    ELSE (IF o \in SurvivingTriangles
          THEN <<mesh.indices[o + 1], mesh.indices[o + 2], mesh.indices[o + 3]>>
          ELSE <<>>) \o SurvivingIndices(o + 3)

\* C9: remove_if equals the reference filter: the vertices and the UVs that
\* survive in their order, the triangles that survive in their order, each
\* corner i rewritten to i - index_offsets[i], which is the place of the same
\* position and UV; with a predicate that never holds nothing changes
C9_ReferenceFilter ==
    (Removing /\ pc = "done") =>
        LET old == SurvivingIndices(0) IN
        /\ result.vertices = Surviving(mesh.vertices, Doomed, Len(mesh.vertices))
        /\ uvs = Surviving(RemoveUvs, Doomed, Len(RemoveUvs))
        /\ Len(result.indices) = Len(old)
        /\ \A k \in 1 .. Len(old) :
              /\ result.indices[k] = old[k] - rm.index_offsets[old[k] + 1]
              /\ result.vertices[result.indices[k] + 1] = mesh.vertices[old[k] + 1]
              /\ uvs[result.indices[k] + 1] = RemoveUvs[old[k] + 1]
        /\ (rm.predicate = {} => result = mesh /\ uvs = RemoveUvs)

\* a call that removed an earlier vertex, so that a surviving index moved
C9_Witness ==
    /\ Removing /\ pc = "done"
    /\ 0 \in Doomed
    /\ Len(result.indices) = 6
    /\ result.indices[1] # result.indices[2]

\* the call with the predicate that never holds, on two triangles
C9_IdentityReached ==
    /\ Removing /\ pc = "done"
    /\ rm.predicate = {}
    /\ Len(mesh.indices) = 6

-----------------------------------------------------------------------------
(* fill_circle *)

\* Bound of the inputs of fill_circle: the length of the boundary ring
MaxRing == 4

RZero == R(0)
ROne == R(1)

\* a.distance(b) < a.distance(c): the square root is monotone
Nearer(a, b, c) == RLt(LengthSquared(VSub(a, b)), LengthSquared(VSub(a, c)))

\* a / b < c / d for a, c >= 0 and b, d > 0, by the integer parts and
\* then the remainders, so that no product is formed
RECURSIVE FractionLess(_, _, _, _)
FractionLess(a, b, c, d) ==
    IF a \div b # c \div d THEN a \div b < c \div d
    ELSE IF c % d = 0 THEN FALSE
    ELSE IF a % b = 0 THEN TRUE
    ELSE FractionLess(d, c % d, b, a % b)

\* p * p * B < q * q * A for A, B > 0, as B / A < (q / p) * (q / p)
SquareLess(p, B, q, A) ==
    IF q[1] = 0 THEN FALSE
    ELSE IF p[1] = 0 THEN TRUE
    ELSE \E x \in {RDiv(B, A)}, r \in {RDiv(q, p)} :
            FractionLess(x[1], x[2], r[1] * r[1], r[2] * r[2])

\* p / sqrt(A) < q / sqrt(B) for A, B > 0, decided on the squares
RatioLess(p, A, q, B) ==
    IF p[1] < 0
    THEN IF q[1] >= 0 THEN TRUE ELSE SquareLess(q, A, p, B)
    ELSE IF q[1] < 0 THEN FALSE ELSE SquareLess(p, B, q, A)

\* u.angle_between(a) < u.angle_between(b): the angle is the arc cosine of
\* the normalised dot product, which decreases as the cosine grows
AngleLess(u, a, b) ==
    RatioLess(Dot(u, b), LengthSquared(b), Dot(u, a), LengthSquared(a))

\* angle_between is a NaN for a vector of length 0, and partial_cmp of a
\* NaN is None
Comparable(u, a) == LengthSquared(u) # RZero /\ LengthSquared(a) # RZero

\* sort_by_angle(a, b) = Less, lines 316-321
SortByAngleLess(vs, ref, a, b) == AngleLess(ref, vs[a + 1], vs[b + 1])

\* x goes before e: ascending for counter, descending for clockwise
GoesBefore(vs, ref, x, e, descending) ==
    IF descending THEN SortByAngleLess(vs, ref, e, x)
    ELSE SortByAngleLess(vs, ref, x, e)

\* sort_by, a stable sort: an entry's place is the number of entries that
\* go before it, or compare equal and stand before it
SortStable(seq, vs, ref, descending) ==
    LET n == Len(seq)
        before(k, j) ==
            \/ GoesBefore(vs, ref, seq[k], seq[j], descending)
            \/ /\ ~GoesBefore(vs, ref, seq[j], seq[k], descending)
               /\ k < j
        ranks == {[j \in 1 .. n |-> Cardinality({k \in 1 .. n : before(k, j)})]}
    IN  CHOOSE sorted \in {[r \in 1 .. n |-> seq[CHOOSE j \in 1 .. n : rank[j] = r - 1]] :
                              rank \in ranks} : TRUE

\* the indices lo .. hi - 1 that satisfy (clockwise) or fail (counter) the
\* test of line 310, in order
RECURSIVE Partition(_, _, _, _, _, _)
Partition(vs, lo, hi, center, cn, wantClockwise) ==
    IF lo >= hi THEN <<>>
    ELSE LET isClockwise == Nearer(vs[lo + 1], VAdd(center, cn), VSub(center, cn))
             rest == Partition(vs, lo + 1, hi, center, cn, wantClockwise)
         IN  IF isClockwise = wantClockwise THEN <<lo>> \o rest ELSE rest

Clamp(c) == IF RLt(ROne, c) THEN ROne ELSE IF RLt(c, RNeg(ROne)) THEN RNeg(ROne) ELSE c

\* a UV that is a NaN
NaNUv == <<"NaN", "NaN">>

\* lines 335-339: the UV of ring vertex v, second tells the clockwise half
RingUv(v, center, refdir, second) ==
    LET w == VSub(v, center)
        ll == RMul(LengthSquared(refdir), LengthSquared(w))
    IN  IF ll = RZero THEN NaNUv
        ELSE LET cosA == Clamp(RDivGrid(Dot(refdir, w), RSqrt(ll)))
                 sinA == RSqrt(RSub(ROne, RMul(cosA, cosA)))
                 sin2 == IF second THEN RNeg(sinA) ELSE sinA
             IN  <<RDiv(RAdd(RNeg(sin2), ROne), RTwo),
                   RSub(ROne, RDiv(RAdd(cosA, ROne), RTwo))>>

\* the fan that closes on itself one place early
NextInRingShort(k, n) == IF k + 1 >= n THEN 1 ELSE k + 1

\* line 332: the place after k (1-based) in a ring of n
NextInRing(k, n) == (k % n) + 1

\* lines 330-340: the fan triangles of the sorted ring
FanIndices(sorted, center_index) ==
    LET n == Len(sorted)
        tri(k) == <<sorted[k], sorted[NextInRing(k, n)], center_index>>
    IN  [j \in 1 .. 3 * n |-> tri(((j - 1) \div 3) + 1)[((j - 1) % 3) + 1]]

\* lines 335-339 for every place of the sorted ring: uvs[v1] is written
\* once for each ring vertex v1
FanUvs(us, sorted, vs, center, refdir, counter_len) ==
    [k \in 1 .. Len(us) |->
        IF \E q \in 1 .. Len(sorted) : sorted[q] + 1 = k
        THEN LET q == CHOOSE q \in 1 .. Len(sorted) : sorted[q] + 1 = k
             IN  RingUv(vs[k], center, refdir, q - 1 >= counter_len)
        ELSE us[k]]

\* the axes create_d6 passes for its faces right (5) and up (6), at the
\* threshold 1/2: plane normal, reference, clockwise normal
FillOrientations ==
    { <<V3(1, 0, 0), V3(0, 0, 1), V3(0, 1, 0)>>,
      <<V3(0, 1, 0), V3(0, 0, -1), V3(1, 0, 0)>> }

Half == Rat(1, 2)

\* where ring vertices lie, as multiples of the clockwise and the reference
\* axis from the center
RingOffsets == { <<1, 0>>, <<0, 1>>, <<-1, 0>>, <<1, 1>> }

RingPoint(o, off) ==
    VAdd(VScale(o[1], Half),
         VAdd(VScale(o[3], R(off[1])), VScale(o[2], R(off[2]))))

\* the vertices before the ring
FillPrefixes == { <<>>, <<V3(2, 2, 2)>> }

otherFill == <<new_indices, index_cache, i, iterations, round, plane, rm,
              d6>>

InitFill ==
    /\ stage = "fill_circle"
    /\ pc = "start"
    /\ d6 = NoD6
    /\ \E o \in FillOrientations, n \in 0 .. MaxRing, pre \in FillPrefixes :
       \E offs \in [1 .. n -> RingOffsets] :
          LET vs == pre \o [k \in 1 .. n |-> RingPoint(o, offs[k])]
          IN  /\ mesh = construct_mesh(vs, IF Len(vs) >= 3 THEN <<0, 1, 2>> ELSE <<>>)
              /\ uvs = [k \in 1 .. Len(vs) |-> <<Rat(k, 16), RZero>>]
              /\ fc = [NoFc EXCEPT !.center = VScale(o[1], Half),
                                   !.reference = VScale(o[2], Half),
                                   !.clockwise_normal = VScale(o[3], Half),
                                   !.circle_start_index = Len(pre),
                                   !.start_index = Len(pre)]
    /\ result = NoMesh
    /\ vertices = <<>>
    /\ indices = <<>>
    /\ new_indices = <<>>
    /\ index_cache = EmptyCache
    /\ i = 0
    /\ iterations = 0
    /\ round = 0
    /\ plane = NoPlane
    /\ rm = NoRm

\* lines 298-307: the reference moved to the center, the ring duplicated
FillDuplicate ==
    /\ stage = "fill_circle" /\ pc = "start"
    /\ LET vs == mesh.vertices
           len == Len(vs)
           ring == IF fc.start_index < len
                   THEN SubSeq(vs, fc.start_index + 1, len) ELSE <<>>
       IN  /\ vertices' = vs \o ring
           /\ uvs' = uvs \o [k \in 1 .. Len(ring) |-> <<RZero, RZero>>]
           /\ fc' = [fc EXCEPT
                       !.reference = VAdd(fc.center, fc.reference),
                       !.start_index = IF fc.start_index < len THEN len ELSE @]
    /\ indices' = mesh.indices
    /\ pc' = "sort"
    /\ UNCHANGED <<stage, mesh, result>>
    /\ UNCHANGED otherFill

\* lines 308-327: the two halves, sorted by angle, joined
FillSort ==
    /\ stage = "fill_circle" /\ pc = "sort"
    /\ \E clockwise \in {Partition(vertices, fc.start_index, Len(vertices),
                                   fc.center, fc.clockwise_normal, TRUE)},
          counter \in {Partition(vertices, fc.start_index, Len(vertices),
                                 fc.center, fc.clockwise_normal, FALSE)} :
          LET compared == (IF Len(clockwise) > 1 THEN clockwise ELSE <<>>)
                             \o (IF Len(counter) > 1 THEN counter ELSE <<>>)
          IN  IF \E k \in 1 .. Len(compared) :
                    ~Comparable(fc.reference, vertices[compared[k] + 1])
              THEN /\ pc' = "panicked"
                   /\ UNCHANGED fc
              ELSE /\ fc' = [fc EXCEPT
                               !.counter_len = Len(counter),
                               !.sorted_indices =
                                   SortStable(counter, vertices, fc.reference, FALSE)
                                   \o SortStable(clockwise, vertices,
                                                 fc.reference, TRUE)]
                   /\ pc' = "fan"
    /\ UNCHANGED <<stage, mesh, result, vertices, indices, uvs>>
    /\ UNCHANGED otherFill

\* the center index taken after the center is pushed
center_index_after_push(vs) == Len(vs) + 1

\* line 329: the index the center gets when it is pushed
center_index(vs) == Len(vs)

\* lines 329-344: the fan, the UVs of the ring, the center
FillFan ==
    /\ stage = "fill_circle" /\ pc = "fan"
    /\ LET out == indices \o FanIndices(fc.sorted_indices, center_index(vertices))
           us == FanUvs(uvs, fc.sorted_indices, vertices, fc.center,
                        VSub(fc.reference, fc.center), fc.counter_len)
           vs == Append(vertices, fc.center)
       IN  /\ indices' = out
           /\ vertices' = vs
           /\ uvs' = Append(us, <<Half, Half>>)
           /\ result' = construct_mesh(vs, out)
    /\ pc' = "done"
    /\ UNCHANGED <<stage, mesh, fc>>
    /\ UNCHANGED otherFill

NextFill == FillDuplicate \/ FillSort \/ FillFan

SpecFill == InitFill /\ [][NextFill]_vars

-----------------------------------------------------------------------------
(* Claims about fill_circle *)

Filling == stage = "fill_circle"

\* the size of the boundary ring handed in: the vertices from the start
\* index the caller passed on
RingSize == Len(mesh.vertices) - fc.circle_start_index

\* C10: on a ring of n >= 3 vertices fill_circle appends the n duplicates of
\* the ring and then one center vertex, and n triangles (v, next v, center)
\* that run once around the duplicates; it names no vertex of the original
\* ring and leaves the triangles already in the mesh as they were
C10_FanOfRing ==
    (Filling /\ pc = "done" /\ RingSize >= 3) =>
        LET len == Len(mesh.vertices)
            n == RingSize
            s == fc.circle_start_index
            old == Len(mesh.indices)
            fan == SubSeq(result.indices, old + 1, Len(result.indices))
            c == len + n
        IN  /\ Len(result.vertices) = len + n + 1
            /\ SubSeq(result.vertices, 1, len) = mesh.vertices
            /\ \A k \in 1 .. n : result.vertices[len + k] = mesh.vertices[s + k]
            /\ result.vertices[c + 1] = fc.center
            /\ Len(result.indices) = old + 3 * n
            /\ SubSeq(result.indices, 1, old) = mesh.indices
            /\ \A j \in 0 .. n - 1 :
                  /\ fan[3 * j + 2] = fan[3 * ((j + 1) % n) + 1]
                  /\ fan[3 * j + 3] = c
            /\ {fan[3 * j + 1] : j \in 0 .. n - 1} = len .. (len + n - 1)

\* a ring of four behind another vertex, with vertices in both halves and
\* the order of the ring changed by the sort
C10_Witness ==
    /\ Filling /\ pc = "done"
    /\ fc.circle_start_index = 1
    /\ RingSize = 4
    /\ fc.counter_len \in 1 .. 3
    /\ fc.sorted_indices # <<5, 6, 7, 8>>

-----------------------------------------------------------------------------
(* create_d6 *)

\* lines 23-32 for one triangle: [vertices, index_cache, triangles]
SubdivideTriangle(vs, cache, p1, p2, p3) ==
    LET c1 == create_midpoint(p1, p2, vs, cache)
        c2 == create_midpoint(p2, p3, c1.vertices, c1.index_cache)
        c3 == create_midpoint(p3, p1, c2.vertices, c2.index_cache)
        m1 == c1.index
        m2 == c2.index
        m3 == c3.index
    IN  [vertices |-> c3.vertices, index_cache |-> c3.index_cache,
         triangles |-> <<p1, m1, m3>> \o <<p2, m2, m1>>
                          \o <<p3, m3, m2>> \o <<m1, m2, m3>>]

\* lines 22-33 as a function: the triangles of is from offset o on, each
\* split in four
RECURSIVE SubdivideFrom(_, _, _, _, _)
SubdivideFrom(vs, cache, is, o, out) ==
    IF o >= Len(is) THEN [vertices |-> vs, indices |-> out]
    ELSE CHOOSE r \in
            { SubdivideFrom(t.vertices, t.index_cache, is, o + 3,
                            out \o t.triangles) :
                 t \in {SubdivideTriangle(vs, cache, is[o + 1], is[o + 2],
                                          is[o + 3])} } : TRUE

\* lines 18-37 as a function: n rounds
RECURSIVE Subdivide(_, _, _)
Subdivide(vs, is, n) ==
    IF n = 0 THEN construct_mesh(vs, is)
    ELSE CHOOSE m \in
            { Subdivide(r.vertices, r.indices, n - 1) :
                 r \in {SubdivideFrom(vs, EmptyCache, is, 0, <<>>)} } : TRUE

\* lines 11-37, past the assertion
create_icosphere(n) ==
    CHOOSE m \in
       { Subdivide(vs, IcosahedronIndices, n) :
            vs \in {[k \in 1 .. Len(IcosahedronVertices) |->
                       project_to_unit_circle(IcosahedronVertices[k])]} } : TRUE

\* lines 176-218 as a function: the triangles number lo .. hi - 1 of is,
\* in order, from the state st of the pass: [vertices, index_cache,
\* new_indices, diverged]
RECURSIVE ClipRange(_, _, _, _, _)
ClipRange(st, is, lo, hi, pl) ==
    IF st.diverged \/ lo >= hi THEN st
    ELSE IF hi = lo + 1
    THEN ClipTriangleStep(st.vertices, st.index_cache, st.new_indices,
                          <<is[3 * lo + 1], is[3 * lo + 2], is[3 * lo + 3]>>,
                          pl)
    ELSE CHOOSE m \in
            { ClipRange(s1, is, (lo + hi) \div 2, hi, pl) :
                 s1 \in {ClipRange(st, is, lo, (lo + hi) \div 2, pl)} } : TRUE

\* lines 173-219: [mesh, diverged]
intersect_mesh_with_plane(m, pl) ==
    CHOOSE r \in
       { [mesh |-> IF st.diverged THEN NoMesh
                   ELSE construct_mesh(st.vertices, st.new_indices),
          diverged |-> st.diverged] :
            st \in { ClipRange(s0, m.indices, 0, Len(m.indices) \div 3, pl) :
                        s0 \in {[vertices |-> m.vertices,
                                 index_cache |-> EmptyCache,
                                 new_indices |-> <<>>,
                                 diverged |-> FALSE]} } } : TRUE

Zeros(n) == [k \in 1 .. n |-> <<RZero, RZero>>]

\* lines 128-135: die face, plane normal, reference, clockwise normal
orientations ==
    << <<2, V3(-1, 0, 0), V3(0, 0, 1), V3(0, -1, 0)>>,
       <<5, V3(1, 0, 0), V3(0, 0, 1), V3(0, 1, 0)>>,
       <<6, V3(0, 1, 0), V3(0, 0, -1), V3(1, 0, 0)>>,
       <<1, V3(0, -1, 0), V3(0, 0, 1), V3(1, 0, 0)>>,
       <<4, V3(0, 0, 1), V3(0, 1, 0), V3(1, 0, 0)>>,
       <<3, V3(0, 0, -1), V3(0, 1, 0), V3(-1, 0, 0)>> >>

\* line 142 left out
ExtendUvsNot(us, n) == us

\* line 142: uvs.extend(vec![[0.0, 0.0]; circle_count])
ExtendUvs(us, n) == us \o Zeros(n)

\* the places of the ring alone, without the center
RemapRangeRing(len, circle_count) == (len - circle_count) .. (len - 1)

\* line 149: uvs.len() - circle_count - 1 .. uvs.len()
RemapRange(len, circle_count) == (len - circle_count - 1) .. (len - 1)

\* line 150
RemapU(u, die_face) == RAdd(Rat(die_face - 1, 6), RDiv(u, R(6)))

\* line 155: vertex.iter().any(|c| c.abs() > threshold)
Beyond(vertex, threshold) == \E k \in 1 .. 3 : RLt(threshold, RAbs(vertex[k]))

\* the calls made: an icosahedron or one round of it, or a depth past the
\* assertion; thresholds that keep the six caps apart
D6Depths == {0, 1, MaxAllowedIterations + 1}
D6Thresholds == {Rat(7, 8), Rat(15, 16)}
D6Sizes == {Rat(3, 5), R(1)}

otherD6 == <<vertices, indices, new_indices, index_cache, i, iterations,
             round, fc>>

InitD6 ==
    /\ stage = "create_d6"
    /\ pc = "start"
    /\ d6 \in { [NoD6 EXCEPT !.depth = depth, !.threshold = threshold,
                             !.size = size] :
                   depth \in D6Depths, threshold \in D6Thresholds,
                   size \in D6Sizes }
    /\ mesh = NoMesh
    /\ result = NoMesh
    /\ uvs = <<>>
    /\ rm = NoRm
    /\ vertices = <<>>
    /\ indices = <<>>
    /\ new_indices = <<>>
    /\ index_cache = EmptyCache
    /\ i = 0
    /\ iterations = 0
    /\ round = 0
    /\ plane = NoPlane
    /\ fc = NoFc

\* lines 127-136: the sphere, a UV of zero for each of its vertices
D6Start ==
    /\ stage = "create_d6" /\ pc = "start"
    /\ IF ~IterationsAllowed(d6.depth)
       THEN /\ pc' = "panicked"
            /\ UNCHANGED <<mesh, uvs>>
       ELSE \E sphere \in {create_icosphere(d6.depth)} :
               /\ mesh' = sphere
               /\ uvs' = Zeros(Len(sphere.vertices))
               /\ pc' = "face"
    /\ UNCHANGED <<stage, result, plane, rm, d6>>
    /\ UNCHANGED otherD6

\* lines 137-142 for the next face: the clip, the count of the vertices it
\* appended, a UV of zero for each of them
D6Clip ==
    /\ stage = "create_d6" /\ pc = "face"
    /\ d6.face < Len(orientations)
    /\ \E pl \in {[point |-> VScale(orientations[d6.face + 1][2], d6.threshold),
                   normal |-> orientations[d6.face + 1][2]]},
          circle_start_index \in {Len(mesh.vertices)} :
          \E r \in {intersect_mesh_with_plane(mesh, pl)} :
             /\ plane' = pl
             /\ IF r.diverged
                THEN /\ pc' = "diverged"
                     /\ UNCHANGED <<mesh, uvs, d6>>
                ELSE \E circle_count \in
                           {Len(r.mesh.vertices) - circle_start_index} :
                        /\ mesh' = r.mesh
                        /\ uvs' = ExtendUvs(uvs, circle_count)
                        /\ d6' = [d6 EXCEPT
                                    !.circle_start_index = circle_start_index,
                                    !.circle_count = circle_count]
                        /\ pc' = "fill"
    /\ UNCHANGED <<stage, result, rm>>
    /\ UNCHANGED otherD6

\* lines 143-148: the cap, fill_circle of lines 298-344; it panics at the
\* sort on a NaN and at uvs[v1] past the end of uvs
D6Fill ==
    /\ stage = "create_d6" /\ pc = "fill"
    /\ \E center \in {VScale(orientations[d6.face + 1][2], d6.threshold)},
          reference \in {VScale(orientations[d6.face + 1][3], d6.threshold)},
          clockwise_normal \in
              {VScale(orientations[d6.face + 1][4], d6.threshold)},
          len \in {Len(mesh.vertices)} :
       \E ref \in {VAdd(center, reference)},
          ring \in {IF d6.circle_start_index < len
                    THEN SubSeq(mesh.vertices, d6.circle_start_index + 1, len)
                    ELSE <<>>},
          start \in {IF d6.circle_start_index < len THEN len
                     ELSE d6.circle_start_index} :
       \E vs \in {mesh.vertices \o ring},
          pushed \in {uvs \o Zeros(Len(ring))} :
       \E clockwise \in {Partition(vs, start, Len(vs), center,
                                   clockwise_normal, TRUE)},
          counter \in {Partition(vs, start, Len(vs), center,
                                 clockwise_normal, FALSE)} :
          LET compared == (IF Len(clockwise) > 1 THEN clockwise ELSE <<>>)
                             \o (IF Len(counter) > 1 THEN counter ELSE <<>>)
          IN  IF \/ \E k \in 1 .. Len(compared) :
                       ~Comparable(ref, vs[compared[k] + 1])
                 \/ (Len(ring) > 0 /\ Len(vs) > Len(pushed))
              THEN /\ pc' = "panicked"
                   /\ UNCHANGED <<mesh, uvs>>
              ELSE \E sorted \in {SortStable(counter, vs, ref, FALSE)
                                     \o SortStable(clockwise, vs, ref, TRUE)} :
                      /\ mesh' = construct_mesh(
                                    Append(vs, center),
                                    mesh.indices
                                       \o FanIndices(sorted, center_index(vs)))
                      /\ uvs' = Append(FanUvs(pushed, sorted, vs, center,
                                              VSub(ref, center), Len(counter)),
                                       <<Half, Half>>)
                      /\ pc' = "remap"
    /\ UNCHANGED <<stage, result, plane, rm, d6>>
    /\ UNCHANGED otherD6

\* lines 149-151: the UVs of the cap moved into the tile of the die face
D6Remap ==
    /\ stage = "create_d6" /\ pc = "remap"
    /\ LET die_face == orientations[d6.face + 1][1]
           range == RemapRange(Len(uvs), d6.circle_count)
       IN  IF \E k \in range : k < 0 \/ k >= Len(uvs)
           THEN /\ pc' = "panicked"
                /\ UNCHANGED <<uvs, d6>>
           ELSE /\ uvs' = [k \in 1 .. Len(uvs) |->
                              IF k - 1 \in range
                              THEN <<RemapU(uvs[k][1], die_face), uvs[k][2]>>
                              ELSE uvs[k]]
                /\ d6' = [d6 EXCEPT !.face = @ + 1]
                /\ pc' = "face"
    /\ UNCHANGED <<stage, mesh, result, plane, rm>>
    /\ UNCHANGED otherD6

\* lines 153-157, the arguments: the closure, as the positions of d6 it
\* holds for
D6Predicate ==
    /\ stage = "create_d6" /\ pc = "face"
    /\ d6.face >= Len(orientations)
    /\ rm' = [NoRm EXCEPT !.predicate =
                 { mesh.vertices[k] : k \in { n \in 1 .. Len(mesh.vertices) :
                                                 Beyond(mesh.vertices[n], d6.threshold) } }]
    /\ pc' = "remove"
    /\ UNCHANGED <<stage, mesh, result, plane, uvs, d6>>
    /\ UNCHANGED otherD6

\* lines 153-157, the call: remove_if, lines 265-289; it panics at uvs[v]
\* past the end of uvs
D6RemoveIf ==
    /\ stage = "create_d6" /\ pc = "remove"
    /\ \E vs \in {mesh.vertices} :
       \E keep \in {[v \in 1 .. Len(vs) |-> ~predicate(vs[v])]},
          offsets \in {IndexOffsets(vs)} :
       \E removed \in {{v - 1 : v \in {w \in 1 .. Len(vs) : ~keep[w]}}} :
          IF Len(uvs) < Len(vs)
          THEN /\ pc' = "panicked"
               /\ UNCHANGED <<mesh, uvs>>
          ELSE /\ mesh' = construct_mesh(
                             Filter(vs, keep, Len(vs)),
                             RewriteIndices(mesh.indices, 0, removed, offsets))
               /\ uvs' = Filter(uvs, keep, Len(vs))
               /\ pc' = "scale"
    /\ UNCHANGED <<stage, result, plane, rm, d6>>
    /\ UNCHANGED otherD6

\* lines 158-168: the vertices scaled, the UVs attached
D6Return ==
    /\ stage = "create_d6" /\ pc = "scale"
    /\ LET scale_factor == RDiv(d6.size, RMul(RTwo, d6.threshold))
           scaled_vertices ==
               [k \in 1 .. Len(mesh.vertices) |->
                   VScale(mesh.vertices[k], scale_factor)]
       IN  result' = [vertices |-> scaled_vertices, indices |-> mesh.indices,
                      uv |-> uvs]
    /\ pc' = "done"
    /\ UNCHANGED <<stage, mesh, plane, uvs, rm, d6>>
    /\ UNCHANGED otherD6

NextD6 ==
    D6Start \/ D6Clip \/ D6Fill \/ D6Remap \/ D6Predicate \/ D6RemoveIf
        \/ D6Return

SpecD6 == InitD6 /\ [][NextD6]_vars

-----------------------------------------------------------------------------
(* Claims about create_d6 *)

MakingD6 == stage = "create_d6"

\* C11: in create_d6 the UV array is as long as the vertex buffer on
\* entry to and on return from each fill_circle call and the remove_if
\* call, and when it is attached to the returned mesh
C11_UvsInStep ==
    MakingD6 =>
        /\ pc \in {"fill", "remap", "remove", "scale"} =>
              Len(uvs) = Len(mesh.vertices)
        /\ pc = "done" => Len(result.uv) = Len(result.vertices)

\* the sixth fill_circle call has returned, from a ring of six
C11_Witness ==
    /\ MakingD6 /\ pc = "remap"
    /\ d6.face = 5
    /\ d6.circle_count = 6
    /\ Len(mesh.vertices) = d6.circle_start_index + 13

\* the faces in the order claimed: die face and axis of the plane
ClaimedFaces ==
    << <<2, V3(-1, 0, 0)>>, <<5, V3(1, 0, 0)>>, <<6, V3(0, 1, 0)>>,
       <<1, V3(0, -1, 0)>>, <<4, V3(0, 0, 1)>>, <<3, V3(0, 0, -1)>> >>

\* the step clips with the plane of the face that is due
ClipsDueFace ==
    /\ d6.face < 6
    /\ pc' = "fill"
    /\ plane' = [point |-> VScale(ClaimedFaces[d6.face + 1][2], d6.threshold),
                 normal |-> ClaimedFaces[d6.face + 1][2]]
    /\ d6'.face = d6.face
    /\ Len(uvs') >= Len(uvs) /\ SubSeq(uvs', 1, Len(uvs)) = uvs

\* the step fills the ring the clip left and writes no UV that was there
\* before the clip
FillsRing ==
    /\ pc' = "remap"
    /\ d6' = d6
    /\ Len(mesh'.vertices) = Len(mesh.vertices) + d6.circle_count + 1
    /\ Len(uvs') = Len(uvs) + d6.circle_count + 1
    /\ SubSeq(uvs', 1, Len(uvs)) = uvs

\* the step remaps the UVs of the cap of the face that is due, the
\* duplicates of the ring and the center, into the tile of its die face,
\* and no other
RemapsCap ==
    LET first == d6.circle_start_index + d6.circle_count
        die_face == ClaimedFaces[d6.face + 1][1]
    IN  /\ pc' = "face"
        /\ d6'.face = d6.face + 1
        /\ mesh' = mesh
        /\ Len(uvs') = Len(uvs)
        /\ Len(uvs) = first + d6.circle_count + 1
        /\ \A k \in 1 .. Len(uvs) :
              uvs'[k] = IF k > first
                        THEN <<RAdd(Rat(die_face - 1, 6),
                                    RDiv(uvs[k][1], R(6))), uvs[k][2]>>
                        ELSE uvs[k]

\* C15: create_d6 takes the faces in the order left (2), right (5), up (6),
\* down (1), front (4), back (3), each clipped and then filled, and prunes
\* after the six; the remap of a face changes the UVs of the cap vertices
\* made for that face, once, and no step changes a UV of an earlier face or
\* of a vertex that is not of a cap
C15_FaceOrderAndRemap ==
    [][MakingD6 =>
          /\ pc = "face" /\ pc' # "remove" => ClipsDueFace
          /\ pc = "fill" => FillsRing
          /\ pc = "remap" => RemapsCap
          /\ pc' = "remove" => (pc = "face" /\ d6.face = 6 /\ uvs' = uvs
                                /\ mesh' = mesh)
          /\ Len(mesh'.vertices) < Len(mesh.vertices) =>
                (pc = "remove" /\ d6.face = 6)]_vars

\* the six caps are remapped: the center of the first cap is in the tile
\* of die face 2 and the center of the last in the tile of die face 3
C15_Witness ==
    /\ MakingD6 /\ pc = "face"
    /\ d6.face = 6
    /\ d6.circle_count = 6
    /\ uvs[55] = <<Rat(1, 4), Half>>
    /\ uvs[Len(uvs)] = <<Rat(5, 12), Half>>
    /\ uvs[1] = <<RZero, RZero>>

-----------------------------------------------------------------------------
(* The stages together *)

Init == InitIco \/ InitClip \/ InitRemove \/ InitFill

Next == NextIco \/ NextClip \/ NextRemove \/ NextFill

Spec == Init /\ [][Next]_vars

\* the Mesh Buffer invariant: whole triangles, every index names a vertex
WellFormed(m) ==
    /\ Len(m.indices) % 3 = 0
    /\ \A k \in 1 .. Len(m.indices) :
          m.indices[k] \in 0 .. (Len(m.vertices) - 1)

\* the mesh a stage starts from; create_icosphere starts from none
InputWellFormed ==
    \/ stage = "create_icosphere"
    \/ /\ mesh.indices # NoIndices
       /\ WellFormed(mesh)

\* C3: the mesh a stage returns has an index list whose length is a
\* multiple of 3 and whose every index is below the number of vertices,
\* whenever the mesh the stage was given has
C3_MeshBufferInvariant ==
    (pc = "done" /\ InputWellFormed) => WellFormed(result)

\* a clip that cut triangles and appended vertices to a well-formed mesh
C3_Witness ==
    /\ Clipping /\ pc = "done"
    /\ InputWellFormed
    /\ Len(result.vertices) > Len(mesh.vertices)
    /\ Len(result.indices) > Len(mesh.indices)

\* under SpecD6: the mesh of create_d6 has whole triangles and in-range
\* indices after create_icosphere, after each clip, fill and remap and
\* after remove_if, and so has the mesh it returns
D6MeshWellFormed ==
    /\ (MakingD6 /\ pc \in {"face", "fill", "remap", "remove", "scale"}) =>
          WellFormed(mesh)
    /\ (MakingD6 /\ pc = "done") => WellFormed(result)

\* create_d6 has pruned a mesh with six caps
D6Pruned ==
    /\ MakingD6 /\ pc = "scale"
    /\ d6.circle_count = 6
    /\ Len(mesh.indices) > 0

=============================================================================
